---- MODULE Spec2Model ----
(***************************************************************************)
(* Waterfall address matcher (mailamm/address-matcher).                    *)
(*                                                                         *)
(* The model follows match_all (main.py): for every parsed transaction the *)
(* stages exact, fuzzy, phonetic, embedding and api run in turn until one  *)
(* returns a candidate id; the result record is appended to results.       *)
(*                                                                         *)
(* Text is a sequence of one-character strings, so that strip, upper,      *)
(* split, join and the similarity ratios are computed, not assumed.        *)
(* Numbers with decimals are integers in hundredths: a confidence of 1.0   *)
(* is 100, a fuzzy score of 87.5 is 8750.  A cosine similarity is kept in  *)
(* ten-thousandths, so that cos * 100 rounded to 2 places is the same      *)
(* integer read in hundredths.                                             *)
(***************************************************************************)
EXTENDS Integers, Sequences, FiniteSets, TLC

(***************************************************************************)
(* Bounds of the model.                                                    *)
(***************************************************************************)
MaxRows == 2      \* rows of raw_addresses in one run
MaxTx == 1        \* rows of parsed_transactions in one run
MaxBatch == 2     \* rows of parsed_transactions in a run over a batch
MaxBatchRows == 1 \* rows of raw_addresses in a run over a batch

(***************************************************************************)
(* Text primitives (Python str methods used by the matchers).              *)
(***************************************************************************)
Max(a, b) == IF a >= b THEN a ELSE b

SP == " "

\* Characters in code-point order: str comparison in sorted() follows it.
Alphabet ==
    << " ", ",", "0", "1", "2", "3", "4", "5", "6", "7", "8", "9",
       "A", "B", "C", "D", "E", "F", "G", "H", "I", "J", "K", "L", "M",
       "N", "O", "P", "Q", "R", "S", "T", "U", "V", "W", "X", "Y", "Z",
       "a", "b", "c", "d", "e", "f", "g", "h", "i", "j", "k", "l", "m",
       "n", "o", "p", "q", "r", "s", "t", "u", "v", "w", "x", "y", "z" >>

OrdOf == [c \in {Alphabet[i] : i \in DOMAIN Alphabet} |->
              CHOOSE i \in 1..Len(Alphabet) : Alphabet[i] = c]

\* ord(c), counted along Alphabet
Ord(c) == OrdOf[c]

\* str.upper() on one character: the lower-case letters sit 26 places after
\* their upper-case forms in Alphabet.
UpperChar(c) == IF Ord(c) >= Ord("a") THEN Alphabet[Ord(c) - 26] ELSE c

Upper(s) == [i \in 1..Len(s) |-> UpperChar(s[i])]

RECURSIVE LStrip(_)
LStrip(s) == IF s # <<>> /\ Head(s) = SP THEN LStrip(Tail(s)) ELSE s

RECURSIVE RStrip(_)
RStrip(s) ==
    IF s # <<>> /\ s[Len(s)] = SP THEN RStrip(SubSeq(s, 1, Len(s) - 1)) ELSE s

\* str.strip()
Strip(s) == RStrip(LStrip(s))

\* ' '.join(tokens)
RECURSIVE Join(_)
Join(tokens) ==
    IF tokens = <<>> THEN <<>>
    ELSE IF Len(tokens) = 1 THEN tokens[1]
    ELSE tokens[1] \o <<SP>> \o Join(Tail(tokens))

\* str.split(): maximal runs of non-blank characters
RECURSIVE SplitFrom(_, _, _)
SplitFrom(s, word, acc) ==
    IF s = <<>> THEN (IF word = <<>> THEN acc ELSE Append(acc, word))
    ELSE IF Head(s) = SP
         THEN SplitFrom(Tail(s), <<>>, IF word = <<>> THEN acc ELSE Append(acc, word))
         ELSE SplitFrom(Tail(s), Append(word, Head(s)), acc)

Split(s) == SplitFrom(s, <<>>, <<>>)

\* a < b for str
RECURSIVE StrLess(_, _)
StrLess(a, b) ==
    IF b = <<>> THEN FALSE
    ELSE IF a = <<>> THEN TRUE
    ELSE IF Head(a) = Head(b) THEN StrLess(Tail(a), Tail(b))
    ELSE Ord(Head(a)) < Ord(Head(b))

\* sorted(tokens)
RECURSIVE InsertSorted(_, _)
InsertSorted(t, sorted) ==
    IF sorted = <<>> THEN <<t>>
    ELSE IF StrLess(t, Head(sorted)) THEN <<t>> \o sorted
    ELSE <<Head(sorted)>> \o InsertSorted(t, Tail(sorted))

RECURSIVE Sorted(_)
Sorted(tokens) ==
    IF tokens = <<>> THEN <<>> ELSE InsertSorted(Head(tokens), Sorted(Tail(tokens)))

\* the distinct tokens, sorted: sorted(set(tokens))
RECURSIVE Dedup(_)
Dedup(sorted) ==
    IF Len(sorted) < 2 THEN sorted
    ELSE IF sorted[1] = sorted[2] THEN Dedup(Tail(sorted))
    ELSE <<sorted[1]>> \o Dedup(Tail(sorted))

Range(f) == {f[i] : i \in DOMAIN f}

(***************************************************************************)
(* rapidfuzz: Indel similarity and the two token ratios, in hundredths of  *)
(* a point (0 .. 10000).                                                   *)
(***************************************************************************)
RECURSIVE LcsRowFrom(_, _, _, _)
LcsRowFrom(prev, c, b, acc) ==
    IF Len(acc) = Len(b) + 1 THEN acc
    ELSE LET j == Len(acc)
         IN  LcsRowFrom(prev, c, b,
                 Append(acc, IF c = b[j] THEN prev[j] + 1
                             ELSE Max(prev[j + 1], acc[j])))

RECURSIVE LcsRows(_, _, _, _)
LcsRows(a, b, i, prev) ==
    IF i > Len(a) THEN prev[Len(b) + 1]
    ELSE LcsRows(a, b, i + 1, LcsRowFrom(prev, a[i], b, <<0>>))

\* length of the longest common subsequence
Lcs(a, b) == LcsRows(a, b, 1, [j \in 1..(Len(b) + 1) |-> 0])

\* Indel distance: insertions and deletions turning a into b
IndelDistance(a, b) == Len(a) + Len(b) - 2 * Lcs(a, b)

\* 100 * (1 - dist / lensum), rounded to hundredths; 100 when lensum is 0
NormSim(dist, lensum) ==
    IF lensum = 0 THEN 10000
    ELSE ((lensum - dist) * 20000 + lensum) \div (2 * lensum)

\* fuzz.ratio
Ratio(a, b) == NormSim(IndelDistance(a, b), Len(a) + Len(b))

\* fuzz.token_sort_ratio
TokenSortRatio(s1, s2) == Ratio(Join(Sorted(Split(s1))), Join(Sorted(Split(s2))))

\* fuzz.token_set_ratio
TokenSetRatio(s1, s2) ==
    LET ta == Dedup(Sorted(Split(s1)))
        tb == Dedup(Sorted(Split(s2)))
        sect == SelectSeq(ta, LAMBDA t : t \in Range(tb))
        dab == SelectSeq(ta, LAMBDA t : t \notin Range(tb))
        dba == SelectSeq(tb, LAMBDA t : t \notin Range(ta))
        abJoined == Join(dab)
        baJoined == Join(dba)
        abLen == Len(abJoined)
        baLen == Len(baJoined)
        sectLen == Len(Join(sect))
        gap == IF sectLen > 0 THEN 1 ELSE 0
        sectAbLen == sectLen + gap + abLen
        sectBaLen == sectLen + gap + baLen
        result == NormSim(IndelDistance(abJoined, baJoined), sectAbLen + sectBaLen)
        sectAbRatio == NormSim(gap + abLen, sectLen + sectAbLen)
        sectBaRatio == NormSim(gap + baLen, sectLen + sectBaLen)
    IN  IF ta = <<>> \/ tb = <<>> THEN 0
        ELSE IF sect # <<>> /\ (dab = <<>> \/ dba = <<>>) THEN 10000
        ELSE IF sectLen = 0 THEN result
        ELSE Max(result, Max(sectAbRatio, sectBaRatio))

(***************************************************************************)
(* The words of the model's addresses.                                     *)
(***************************************************************************)
EMPTY == <<>>
W123 == <<"1", "2", "3">>
WN == <<"N">>
WMAIN == <<"M", "A", "I", "N">>
WSMITH == <<"S", "M", "I", "T", "H">>
WSMYTH == <<"S", "M", "Y", "T", "H">>
WST == <<"S", "T">>
WSTREET == <<"S", "T", "R", "E", "E", "T">>
WAPT == <<"A", "P", "T">>
W4A == <<"4", "A">>
W4B == <<"4", "B">>
WZIP == <<"1", "1", "2", "1", "1">>
WBROOKLYN == <<"B", "R", "O", "O", "K", "L", "Y", "N">>
WNY == <<"N", "Y">>

\* Python's None where a column or a JSON member is null
Null == <<"null">>

\* (x or "")
OrEmpty(x) == IF x = Null THEN EMPTY ELSE x

\* No candidate: the None that a matcher returns for hhid.  Household ids
\* are positive, so "if hhid:" is "hhid is not None".
NoneId == 0

(***************************************************************************)
(* raw_addresses: the rows a run's candidate store is drawn from.  The     *)
(* text columns are stripped and upper-cased by ingest; address (the       *)
(* display line) is stored as it came.                                     *)
(***************************************************************************)
Addr(h, hs, pre, st, ty, post, at, an, disp) ==
    [hhid |-> h, house |-> hs, predir |-> pre, street |-> st, strtype |-> ty,
     postdir |-> post, apttype |-> at, aptnbr |-> an, zip |-> WZIP,
     address |-> disp]

Catalog ==
    << Addr(1, W123, WN, WMAIN, WST, EMPTY, EMPTY, EMPTY,
            <<"1", "2", "3", " ", "N", " ", "M", "a", "i", "n", " ", "S", "t">>),
       Addr(2, W123, EMPTY, WMAIN, WST, EMPTY, WAPT, W4A,
            <<"1", "2", "3", " ", "M", "A", "I", "N", " ", "S", "T", " ", "A", "P", "T", " ", "4", "A">>),
       Addr(3, W123, EMPTY, WMAIN, WST, EMPTY, WAPT, W4B,
            <<"1", "2", "3", " ", "M", "A", "I", "N", " ", "S", "T", " ", "A", "P", "T", " ", "4", "B">>),
       Addr(4, W123, EMPTY, WSMYTH, WST, EMPTY, EMPTY, EMPTY,
            <<"1", "2", "3", " ", "S", "M", "Y", "T", "H", " ", "S", "T">>),
       Addr(5, EMPTY, EMPTY, WMAIN, WST, EMPTY, EMPTY, EMPTY,
            <<" ", "M", "A", "I", "N", " ", "S", "T">>) >>

\* SELECT ... WHERE hhid = :hhid
Row(h) == Catalog[h]

(***************************************************************************)
(* parsed_transactions: the parsed rows a run's batch is drawn from        *)
(* (parse_address strips and upper-cases every component).                 *)
(***************************************************************************)
Parsed(num, pre, st, ty, post, at, un, orig, c, s, z) ==
    [street_number |-> num, predir |-> pre, street_name |-> st,
     street_type |-> ty, postdir |-> post, apt_type |-> at, unit |-> un,
     original_address |-> orig, city |-> c, state |-> s, zip_code |-> z]

Queries ==
    << Parsed(W123, WN, WMAIN, WST, EMPTY, EMPTY, EMPTY,
              <<"1", "2", "3", " ", "N", " ", "M", "A", "I", "N", " ", "S", "T", " ">>, WBROOKLYN, WNY, WZIP),
       Parsed(W123, EMPTY, WMAIN, WSTREET, EMPTY, EMPTY, EMPTY,
              <<"1", "2", "3", " ", "M", "A", "I", "N", " ", "S", "T", "R", "E", "E", "T", " ">>, WBROOKLYN, WNY, WZIP),
       Parsed(W123, EMPTY, WMAIN, WSTREET, EMPTY, WAPT, W4B,
              <<"1", "2", "3", " ", "M", "A", "I", "N", " ", "S", "T", "R", "E", "E", "T", " ", "A", "P", "T", " ", "4", "B">>, WBROOKLYN, WNY, WZIP),
       Parsed(W123, EMPTY, WSMITH, WST, EMPTY, EMPTY, EMPTY,
              <<"1", "2", "3", " ", "S", "M", "I", "T", "H", " ", "S", "T", " ">>, WBROOKLYN, WNY, WZIP),
       Parsed(EMPTY, EMPTY, WMAIN, WST, EMPTY, EMPTY, EMPTY,
              <<"M", "A", "I", "N", " ", "S", "T", " ">>, WBROOKLYN, WNY, WZIP),
       Parsed(EMPTY, EMPTY, EMPTY, EMPTY, EMPTY, EMPTY, EMPTY,
              <<" ">>, EMPTY, EMPTY, EMPTY),
       Parsed(W123, EMPTY, WMAIN, EMPTY, EMPTY, EMPTY, EMPTY,
              <<"1", "2", "3", " ", "M", "A", "I", "N", " ">>, WBROOKLYN, WNY, WZIP) >>

(***************************************************************************)
(* metaphone.doublemetaphone(word)[0] on the street names of the model.    *)
(***************************************************************************)
DoubleMetaphone(w) ==
    CASE w = WMAIN -> "MN"
      [] w = WSMITH -> "SM0"
      [] w = WSMYTH -> "SM0"
      [] w = EMPTY -> ""

(***************************************************************************)
(* Program constants.                                                      *)
(***************************************************************************)
ExactConfidence == 100        \* 1.0
FuzzyThreshold == 7000        \* 70.0
PhoneticThreshold == 7000     \* 70
EmbThreshold == 7500          \* 0.75

\* The rows of raw_addresses, in table order, that a store holds
Rows(st) == [i \in 1..Len(st) |-> Row(st[i])]

\* ' '.join(t for t in tokens if t).upper()
FullStreet(pre, name, type, post) ==
    Upper(Join(SelectSeq(<<pre, name, type, post>>, LAMBDA t : t # EMPTY)))

ParsedFull(p) == FullStreet(p.predir, p.street_name, p.street_type, p.postdir)

CanonFull(r) == FullStreet(r.predir, r.street, r.strtype, r.postdir)

\* what a matcher returns: (hhid, score)
Ret(h, s) == [hhid |-> h, score |-> s]

NoMatch == Ret(NoneId, 0)

\* The two token ratios, computed once for the texts of the model's rows.
SortRatioOf ==
    [t \in {<<ParsedFull(Queries[q]), CanonFull(Catalog[h])>> :
               q \in DOMAIN Queries, h \in DOMAIN Catalog} |->
        TokenSortRatio(t[1], t[2])]

SetRatioOf ==
    [t \in {<<ParsedFull(Queries[q]), Upper(OrEmpty(Catalog[h].address))>> :
               q \in DOMAIN Queries, h \in DOMAIN Catalog} |->
        TokenSetRatio(t[1], t[2])]

(***************************************************************************)
(* match.exact_match                                                       *)
(***************************************************************************)
\* the WHERE clause of the exact lookup, for candidate row r and parsed p
ExactWhere(r, p) ==
    /\ r.house = p.street_number
    /\ \/ r.predir = p.predir
       \/ r.predir = EMPTY /\ p.predir = EMPTY
    /\ r.street = p.street_name
    /\ r.strtype = p.street_type
    /\ \/ r.postdir = p.postdir
       \/ r.postdir = EMPTY /\ p.postdir = EMPTY
    /\ \/ r.apttype = p.apt_type /\ r.aptnbr = p.unit
       \/ /\ p.apt_type = EMPTY /\ p.unit = EMPTY
          /\ r.apttype = EMPTY /\ r.aptnbr = EMPTY

exact_match(st, p) ==
    LET hits == SelectSeq(Rows(st), LAMBDA r : ExactWhere(r, p))
    IN  IF hits # <<>> THEN Ret(hits[1].hhid, ExactConfidence) ELSE NoMatch

(***************************************************************************)
(* match.fuzzy_match                                                       *)
(***************************************************************************)
\* the loop over the same-house candidates: best is updated on a strictly
\* higher score
RECURSIVE FuzzyBest(_, _, _)
FuzzyBest(cands, parsedFull, best) ==
    IF cands = <<>> THEN best
    ELSE LET r == Head(cands)
             score == SortRatioOf[<<parsedFull, CanonFull(r)>>]
         IN  FuzzyBest(Tail(cands), parsedFull,
                 IF score > best.score
                 THEN [hhid |-> r.hhid, score |-> score,
                       apttype |-> r.apttype, aptnbr |-> r.aptnbr]
                 ELSE best)

\* the unit gate applied to the candidates before the best is chosen: the
\* best of the candidates with the parsed unit is accepted
fuzzy_matchBestOfUnit(st, p) ==
    LET num == Strip(p.street_number)
        cands == SelectSeq(Rows(st), LAMBDA r : r.house = num /\ r.aptnbr = p.unit)
        best == FuzzyBest(cands, ParsedFull(p),
                    [hhid |-> NoneId, score |-> 0, apttype |-> EMPTY, aptnbr |-> EMPTY])
    IN  IF num = EMPTY THEN NoMatch
        ELSE IF best.score >= FuzzyThreshold
             THEN Ret(best.hhid, best.score)
             ELSE NoMatch

\* the threshold left out of the gate: the best candidate is accepted on
\* its unit alone
fuzzy_matchNoThreshold(st, p) ==
    LET num == Strip(p.street_number)
        cands == SelectSeq(Rows(st), LAMBDA r : r.house = num)
        best == FuzzyBest(cands, ParsedFull(p),
                    [hhid |-> NoneId, score |-> 0, apttype |-> EMPTY, aptnbr |-> EMPTY])
    IN  IF num = EMPTY THEN NoMatch
        ELSE IF p.unit = best.aptnbr
             THEN Ret(best.hhid, best.score)
             ELSE NoMatch

fuzzy_match(st, p) ==
    LET num == Strip(p.street_number)
        cands == SelectSeq(Rows(st), LAMBDA r : r.house = num)
        best == FuzzyBest(cands, ParsedFull(p),
                    [hhid |-> NoneId, score |-> 0, apttype |-> EMPTY, aptnbr |-> EMPTY])
    IN  IF num = EMPTY THEN NoMatch
        ELSE IF best.score >= FuzzyThreshold /\ p.unit = best.aptnbr
             THEN Ret(best.hhid, best.score)
             ELSE NoMatch

(***************************************************************************)
(* fallback.phonetic_match                                                 *)
(***************************************************************************)
RECURSIVE PhoneticBest(_, _, _)
PhoneticBest(cands, parsedFull, best) ==
    IF cands = <<>> THEN best
    ELSE LET r == Head(cands)
             score == SetRatioOf[<<parsedFull, Upper(OrEmpty(r.address))>>]
         IN  PhoneticBest(Tail(cands), parsedFull,
                 IF score > best.score THEN Ret(r.hhid, score) ELSE best)

phonetic_match(st, p) ==
    LET num == Upper(Strip(OrEmpty(p.street_number)))
        parsedUnit == Upper(Strip(OrEmpty(p.unit)))
        rows == SelectSeq(Rows(st), LAMBDA r : r.house = num)
        targetCode == DoubleMetaphone(Upper(p.street_name))
        phonetic == SelectSeq(rows,
                        LAMBDA r : DoubleMetaphone(Upper(OrEmpty(r.street))) = targetCode)
        sameUnit == IF parsedUnit # EMPTY
                    THEN SelectSeq(phonetic,
                             LAMBDA r : Upper(Strip(OrEmpty(r.aptnbr))) = parsedUnit)
                    ELSE phonetic
        best == PhoneticBest(sameUnit, ParsedFull(p), NoMatch)
    IN  IF num = EMPTY THEN NoMatch
        ELSE IF rows = <<>> THEN NoMatch
        ELSE IF phonetic = <<>> THEN NoMatch
        ELSE IF sameUnit = <<>> THEN NoMatch
        ELSE IF best.score >= PhoneticThreshold THEN best
        ELSE NoMatch

(***************************************************************************)
(* fallback.embedding_match.  The sentence-embedding model is a fixed      *)
(* function of the two texts that the matcher cannot see into: cos maps    *)
(* <<parsed_full, candidate address>> to the cosine similarity the model   *)
(* yields for them.                                                        *)
(***************************************************************************)
CandAddr(r) == Upper(Strip(OrEmpty(r.address)))

\* the candidates that the loop encodes: same house, unit filter passed
EmbeddingCands(st, p) ==
    LET num == Upper(Strip(OrEmpty(p.street_number)))
        parsedUnit == Upper(Strip(OrEmpty(p.unit)))
    IN  IF num = EMPTY THEN <<>>
        ELSE SelectSeq(Rows(st),
                 LAMBDA r : /\ r.house = num
                            /\ ~(parsedUnit # EMPTY
                                 /\ parsedUnit # Upper(Strip(OrEmpty(r.aptnbr)))))

RECURSIVE EmbeddingBest(_, _, _, _)
EmbeddingBest(cands, parsedFull, cos, best) ==
    IF cands = <<>> THEN best
    ELSE LET r == Head(cands)
             cosSim == cos[<<parsedFull, CandAddr(r)>>]
         IN  EmbeddingBest(Tail(cands), parsedFull, cos,
                 IF cosSim > best.score THEN Ret(r.hhid, cosSim) ELSE best)

embedding_match(st, p, cos, embThreshold) ==
    LET best == EmbeddingBest(EmbeddingCands(st, p), ParsedFull(p), cos, NoMatch)
    IN  IF best.hhid # NoneId /\ best.score >= embThreshold
        THEN Ret(best.hhid, best.score)
        ELSE NoMatch

(***************************************************************************)
(* fallback.api_match                                                      *)
(***************************************************************************)
COMMA == <<",", " ">>

\* f"{street_part}, {city_part}, {state_part} {zip_part}".strip()
ApiQuery(p) ==
    Strip(p.original_address \o COMMA \o p.city \o COMMA \o p.state
          \o <<SP>> \o p.zip_code)

\* (top.get(name) or "").strip().upper()
Normalized(x) == Upper(Strip(OrEmpty(x)))

\* the bound parameters of the lookup, from the top result's components
ApiParams(top) ==
    [house |-> Normalized(top.number),
     predir |-> Normalized(top.predirectional),
     street |-> Normalized(top.street),
     strtype |-> Normalized(top.suffix),
     postdir |-> Normalized(top.postdirectional),
     apt_type |-> Normalized(top.secondaryunit),
     unit |-> Normalized(top.secondarynumber),
     zip5 |-> Strip(OrEmpty(top.zip))]

\* the unit clauses written like the directional ones: an empty parameter
\* matches any row
ApiWhereLaxUnit(r, a) ==
    /\ r.house = a.house
    /\ r.street = a.street
    /\ r.zip = a.zip5
    /\ (a.predir = EMPTY \/ r.predir = a.predir)
    /\ (a.postdir = EMPTY \/ r.postdir = a.postdir)
    /\ (a.strtype = EMPTY \/ r.strtype = a.strtype)
    /\ (a.apt_type = EMPTY \/ r.apttype = a.apt_type)
    /\ (a.unit = EMPTY \/ r.aptnbr = a.unit)

\* the WHERE clause of the lookup by normalized components a, for row r
ApiWhere(r, a) ==
    /\ r.house = a.house
    /\ r.street = a.street
    /\ r.zip = a.zip5
    /\ (a.predir = EMPTY \/ r.predir = a.predir)
    /\ (a.postdir = EMPTY \/ r.postdir = a.postdir)
    /\ (a.strtype = EMPTY \/ r.strtype = a.strtype)
    /\ \/ a.apt_type = EMPTY /\ r.apttype = EMPTY
       \/ a.apt_type # EMPTY /\ r.apttype = a.apt_type
    /\ \/ a.unit = EMPTY /\ r.aptnbr = EMPTY
       \/ a.unit # EMPTY /\ r.aptnbr = a.unit

NoParams ==
    [house |-> Null, predir |-> Null, street |-> Null, strtype |-> Null,
     postdir |-> Null, apt_type |-> Null, unit |-> Null, zip5 |-> Null]

\* What one call of api_match does: raised (an exception leaves the
\* function), the triple (hhid, score, reason) it returns otherwise, sent
\* (requests.get was called) and the parameters of the lookup, if any.
ApiRet(h, s, why, wasSent, a) ==
    [raised |-> FALSE, hhid |-> h, score |-> s, reason |-> why,
     sent |-> wasSent, params |-> a]

ApiRaise(a) ==
    [raised |-> TRUE, hhid |-> NoneId, score |-> 0, reason |-> "",
     sent |-> TRUE, params |-> a]

\* the check of the key left out
KeyMissingNever(key) == FALSE

\* "if not key:"
KeyMissing(key) == key = ""

\* the reason left blank
NoKeyReturnBlank == ApiRet(NoneId, 0, "", FALSE, NoParams)

\* return None, 0.0, "no api key"
NoKeyReturn == ApiRet(NoneId, 0, "no api key", FALSE, NoParams)

\* key: GEOCODIO_API_KEY; resp: what the validator does with the request
api_match(st, p, key, resp) ==
    IF KeyMissing(key) THEN NoKeyReturn
    ELSE IF ApiQuery(p) = EMPTY
         THEN ApiRet(NoneId, 0, "no original_address", FALSE, NoParams)
    ELSE IF resp.outcome \in {"timeout", "connection_error", "http_error"}
         THEN ApiRet(NoneId, 0, "api request error", TRUE, NoParams)
    ELSE IF resp.outcome = "not_json"
         THEN ApiRaise(NoParams)                      \* resp.json() raises
    ELSE IF resp.outcome = "no_results"
         THEN ApiRet(NoneId, 0, "no api result", TRUE, NoParams)
    ELSE IF resp.outcome = "null_components"
         THEN ApiRaise(NoParams)                      \* top is None: top.get raises
    ELSE LET a == ApiParams(resp.components)
             hits == SelectSeq(Rows(st), LAMBDA r : ApiWhere(r, a))
         IN  IF hits # <<>>
             THEN ApiRet(hits[1].hhid, resp.accuracy, "api match", TRUE, a)
             ELSE ApiRet(NoneId, 0, "api returned but no match", TRUE, a)

(***************************************************************************)
(* The environment: what the validator may answer and what the embedding   *)
(* model may yield.                                                        *)
(***************************************************************************)
LowerChar(c) ==
    IF Ord(c) >= Ord("A") /\ Ord(c) <= Ord("Z") THEN Alphabet[Ord(c) + 26] ELSE c

\* "MAIN" as the validator spells it: "Main"
TitleCase(w) == [i \in 1..Len(w) |-> IF i = 1 THEN w[i] ELSE LowerChar(w[i])]

\* an empty component is a null member of the JSON object
Member(w) == IF w = EMPTY THEN Null ELSE TitleCase(w)

Geocoded(r) ==
    [number |-> Member(r.house), predirectional |-> Member(r.predir),
     street |-> Member(r.street), suffix |-> Member(r.strtype),
     postdirectional |-> Member(r.postdir), secondaryunit |-> Member(r.apttype),
     secondarynumber |-> Member(r.aptnbr), zip |-> Member(r.zip)]

NoComponents ==
    [number |-> Null, predirectional |-> Null, street |-> Null, suffix |-> Null,
     postdirectional |-> Null, secondaryunit |-> Null, secondarynumber |-> Null,
     zip |-> Null]

\* the validator's components for an address, complete or with one part left out
Answers(r) ==
    LET g == Geocoded(r)
    IN  { g,
          [g EXCEPT !.number = Null],
          [g EXCEPT !.predirectional = Null],
          [g EXCEPT !.suffix = Null],
          [g EXCEPT !.secondaryunit = Null, !.secondarynumber = Null] }

\* the validator's accuracy, in hundredths
Accuracies == {90}

Failures ==
    {"timeout", "connection_error", "http_error", "not_json", "no_results",
     "null_components"}

Responses(st) ==
    [outcome : Failures, components : {NoComponents}, accuracy : {0}]
    \cup [outcome : {"ok"},
          components : UNION {Answers(r) : r \in Range(Rows(st))},
          accuracy : Accuracies]

\* cosine similarities, in ten-thousandths
CosValues == {6000, 7500}

(***************************************************************************)
(* State.                                                                  *)
(***************************************************************************)
VARIABLES
    store,      \* raw_addresses: the hhids of its rows, in table order
    apiKey,     \* GEOCODIO_API_KEY ("" when unset)
    batch,      \* parsed_transactions: indexes into Queries, in table order
    cos,        \* the embedding model's similarities for the pairs encoded so far
    idx,        \* match_all: the row of the batch the loop is at
    pc,         \* match_all: where the loop body is
    hhid,       \* match_all locals
    score,
    mtype,
    reason,
    results,    \* match_all: the result records appended so far
    matches,    \* the matches table and matched_output.csv
    report,     \* unmatched_report.json
    calls,      \* the stages invoked for the current row, in order, each
                \* with the hhid it returned
    requests,   \* requests sent to the validator for the current row
    apiRet      \* what api_match did for the current row

vars ==
    << store, apiKey, batch, cos, idx, pc, hhid, score, mtype, reason,
       results, matches, report, calls, requests, apiRet >>

env == << store, apiKey, batch >>

SeqsUpTo(S, n) == UNION {[1..k -> S] : k \in 0..n}

Distinct(f) == \A i, j \in DOMAIN f : i # j => f[i] # f[j]

Stores == {st \in SeqsUpTo(1..Len(Catalog), MaxRows) : Distinct(st)}

Batches == SeqsUpTo(1..Len(Queries), MaxTx)

NotCalled == ApiRet(NoneId, 0, "", FALSE, NoParams)

NoFile == <<[transaction_id |-> 0]>>

Init ==
    /\ store \in Stores
    /\ apiKey \in {"", "k3y"}
    /\ batch \in Batches
    /\ cos = <<>>
    /\ idx = 0
    /\ pc = "loop"
    /\ hhid = NoneId
    /\ score = 0
    /\ mtype = "none"
    /\ reason = ""
    /\ results = <<>>
    /\ matches = NoFile
    /\ report = NoFile
    /\ calls = <<>>
    /\ requests = 0
    /\ apiRet = NotCalled

\* the loop variable left at the first row
CurFirst == Queries[batch[1]]

\* the parsed row the loop is at
Cur == Queries[batch[idx]]

\* "if hhid:"
Found(h) == h # NoneId

(***************************************************************************)
(* match_all: one action per step of the loop body.                        *)
(***************************************************************************)
\* for row in parsed_rows: ... hhid, score, mtype, reason = None, 0.0, None, ''
NextRow ==
    /\ pc = "loop"
    /\ idx < Len(batch)
    /\ idx' = idx + 1
    /\ hhid' = NoneId
    /\ score' = 0
    /\ mtype' = "none"
    /\ reason' = ""
    /\ calls' = <<>>
    /\ requests' = 0
    /\ apiRet' = NotCalled
    /\ pc' = "exact"
    /\ UNCHANGED << env, cos, results, matches, report >>

\* SELECT address FROM raw_addresses WHERE hhid = :hhid
MatchedAddress(st, h) ==
    LET rows == SelectSeq(Rows(st), LAMBDA r : r.hhid = h)
    IN  IF Found(h) /\ rows # <<>> THEN rows[1].address ELSE EMPTY

\* after the loop: df_res.to_sql and to_csv, and the unmatched report
Saved(res) ==
    /\ matches' = res
    /\ report' = SelectSeq(res, LAMBDA r : r.match_type = "unmatched")
    /\ pc' = "finished"

\* results.append({...}): the end of the loop body; after the last row the
\* loop is left and the results are saved
AppendResult(h, sc, mt, why) ==
    /\ results' = Append(results,
                     [transaction_id |-> idx, address_id |-> h,
                      matched_address |-> MatchedAddress(store, h),
                      confidence |-> sc, match_type |-> mt, reason |-> why])
    /\ IF idx < Len(batch)
       THEN pc' = "loop" /\ UNCHANGED << matches, report >>
       ELSE Saved(results')

\* the stages not nested in the else branches: a candidate is noted, and the
\* next stage runs all the same
WaterfallFallThrough(stage, ret, next, hit, miss) ==
    /\ calls' = Append(calls, [stage |-> stage, hhid |-> ret.hhid])
    /\ hhid' = ret.hhid
    /\ score' = ret.score
    /\ mtype' = IF Found(ret.hhid) THEN stage ELSE mtype
    /\ reason' = IF Found(ret.hhid) THEN hit ELSE miss
    /\ pc' = next
    /\ UNCHANGED << results, matches, report >>

\* the phonetic stage tried before the fuzzy one
WaterfallSwapped(stage, ret, next, hit, miss) ==
    /\ calls' = Append(calls, [stage |-> stage, hhid |-> ret.hhid])
    /\ hhid' = ret.hhid
    /\ score' = ret.score
    /\ IF Found(ret.hhid)
       THEN /\ mtype' = stage
            /\ reason' = hit
            /\ AppendResult(ret.hhid, ret.score, stage, hit)
       ELSE /\ mtype' = mtype
            /\ reason' = miss
            /\ UNCHANGED << results, matches, report >>
            /\ pc' = CASE stage = "exact" -> "phonetic"
                        [] stage = "phonetic" /\ Len(calls) = 1 -> "fuzzy"
                        [] stage = "fuzzy" -> "embedding"
                        [] OTHER -> next

\* a stage that is not the last: on a candidate the row is done, otherwise
\* the rejection reason is kept and the next stage runs
Waterfall(stage, ret, next, hit, miss) ==
    /\ calls' = Append(calls, [stage |-> stage, hhid |-> ret.hhid])
    /\ hhid' = ret.hhid
    /\ score' = ret.score
    /\ IF Found(ret.hhid)
       THEN /\ mtype' = stage
            /\ reason' = hit
            /\ AppendResult(ret.hhid, ret.score, stage, hit)
       ELSE /\ mtype' = mtype
            /\ reason' = miss
            /\ pc' = next
            /\ UNCHANGED << results, matches, report >>

ExactStage ==
    /\ pc = "exact"
    /\ Waterfall("exact", exact_match(store, Cur), "fuzzy",
                 "exact match", "no exact match")
    /\ UNCHANGED << env, cos, idx, requests, apiRet >>

FuzzyStage ==
    /\ pc = "fuzzy"
    /\ Waterfall("fuzzy", fuzzy_match(store, Cur), "phonetic",
                 "fuzzy match", "low fuzzy score")
    /\ UNCHANGED << env, cos, idx, requests, apiRet >>

PhoneticStage ==
    /\ pc = "phonetic"
    /\ Waterfall("phonetic", phonetic_match(store, Cur), "embedding",
                 "phonetic match", "no phonetic match")
    /\ UNCHANGED << env, cos, idx, requests, apiRet >>

\* the pairs of texts that embedding_match encodes for parsed row p
Encoded(st, p) ==
    {<<ParsedFull(p), CandAddr(r)>> : r \in Range(EmbeddingCands(st, p))}

EmbeddingStage ==
    /\ pc = "embedding"
    /\ \E fresh \in [Encoded(store, Cur) \ DOMAIN cos -> CosValues] :
          /\ cos' = fresh @@ cos
          /\ Waterfall("embedding",
                       embedding_match(store, Cur, cos', EmbThreshold), "api",
                       "embedding match", "low embedding score")
    /\ UNCHANGED << env, idx, requests, apiRet >>

\* the else branch left out: every row that reaches the API is typed "api"
ApiTypeAlways(h) == "api"

\* the last stage: "api" on a candidate, "unmatched" otherwise
ApiType(h) == IF Found(h) THEN "api" ELSE "unmatched"

ApiStage ==
    /\ pc = "api"
    /\ \E resp \in Responses(store) :
          LET ret == api_match(store, Cur, apiKey, resp)
          IN  /\ calls' = Append(calls, [stage |-> "api", hhid |-> ret.hhid])
              /\ requests' = IF ret.sent THEN requests + 1 ELSE requests
              /\ apiRet' = ret
              /\ IF ret.raised
                 THEN /\ pc' = "crashed"
                      /\ UNCHANGED << hhid, score, mtype, reason, results,
                                      matches, report >>
                 ELSE /\ hhid' = ret.hhid
                      /\ score' = ret.score
                      /\ mtype' = ApiType(ret.hhid)
                      /\ reason' = ret.reason
                      /\ AppendResult(ret.hhid, ret.score, mtype', ret.reason)
    /\ UNCHANGED << env, cos, idx >>

\* a run over no rows: the loop body never runs and empty results are saved
SaveResults ==
    /\ pc = "loop"
    /\ idx = Len(batch)
    /\ Saved(results)
    /\ UNCHANGED << env, cos, idx, hhid, score, mtype, reason, results, calls,
                    requests, apiRet >>

Next ==
    \/ NextRow
    \/ ExactStage
    \/ FuzzyStage
    \/ PhoneticStage
    \/ EmbeddingStage
    \/ ApiStage
    \/ SaveResults

Spec == Init /\ [][Next]_vars

(***************************************************************************)
(* A run over a batch of several rows, on a small store.                   *)
(***************************************************************************)
\* the rows of a batch: a query with an exact candidate, one with a fuzzy
\* one, one with a phonetic one, and the blank one
BatchQueries == {1, 2, 4, 6}

\* stores in the order of their hhids
Ascending(f) == \A i, j \in DOMAIN f : i < j => f[i] < f[j]

InitBatch ==
    /\ store \in {st \in SeqsUpTo(1..Len(Catalog), MaxBatchRows) : Ascending(st)}
    /\ apiKey \in {"", "k3y"}
    /\ batch \in SeqsUpTo(BatchQueries, MaxBatch)
    /\ cos = <<>>
    /\ idx = 0
    /\ pc = "loop"
    /\ hhid = NoneId
    /\ score = 0
    /\ mtype = "none"
    /\ reason = ""
    /\ results = <<>>
    /\ matches = NoFile
    /\ report = NoFile
    /\ calls = <<>>
    /\ requests = 0
    /\ apiRet = NotCalled

SpecBatch == InitBatch /\ [][Next]_vars

(***************************************************************************)
(* The body of match_all's loop for one row, as a function of the row, the *)
(* store, the embedding model (cosm) and what api_match did (api): the     *)
(* record that a run over this row alone appends as transaction tx.        *)
(***************************************************************************)
match_row(tx, st, p, cosm, api) ==
    LET rec(h, sc, mt, why) ==
            [transaction_id |-> tx, address_id |-> h,
             matched_address |-> MatchedAddress(st, h),
             confidence |-> sc, match_type |-> mt, reason |-> why]
        e == exact_match(st, p)
        f == fuzzy_match(st, p)
        ph == phonetic_match(st, p)
        em == embedding_match(st, p, cosm, EmbThreshold)
    IN  IF Found(e.hhid) THEN rec(e.hhid, e.score, "exact", "exact match")
        ELSE IF Found(f.hhid) THEN rec(f.hhid, f.score, "fuzzy", "fuzzy match")
        ELSE IF Found(ph.hhid) THEN rec(ph.hhid, ph.score, "phonetic", "phonetic match")
        ELSE IF Found(em.hhid) THEN rec(em.hhid, em.score, "embedding", "embedding match")
        ELSE rec(api.hhid, api.score,
                 IF Found(api.hhid) THEN "api" ELSE "unmatched", api.reason)

(***************************************************************************)
(* Whether a matcher, called for parsed row p, executes its SELECT on      *)
(* raw_addresses or returns before it.                                     *)
(***************************************************************************)
\* exact_match has no guard: conn.execute(q, parsed) runs for every row
ExactQueries(p) == TRUE

\* "if not num: return None, 0.0" comes before the SELECT
FuzzyQueries(p) == Strip(p.street_number) # EMPTY

PhoneticQueries(p) == Upper(Strip(OrEmpty(p.street_number))) # EMPTY

EmbeddingQueries(p) == Upper(Strip(OrEmpty(p.street_number))) # EMPTY

StoreQueried(stage, p) ==
    CASE stage = "exact" -> ExactQueries(p)
      [] stage = "fuzzy" -> FuzzyQueries(p)
      [] stage = "phonetic" -> PhoneticQueries(p)
      [] stage = "embedding" -> EmbeddingQueries(p)

(***************************************************************************)
(* Vocabulary of the properties.                                           *)
(***************************************************************************)
Stages == <<"exact", "fuzzy", "phonetic", "embedding", "api">>

MatchTypes == {"exact", "fuzzy", "phonetic", "embedding", "api", "unmatched"}

\* the parsed row that result i was made for
QueryOf(i) == Queries[batch[i]]

\* the loop is between two rows: the record of row idx is the last of results,
\* and calls, requests and apiRet tell how it was made
RowDone == idx > 0 /\ Len(results) = idx

LastResult == results[Len(results)]

ApiCalled == \E k \in DOMAIN calls : calls[k].stage = "api"

\* the candidate rows of the store that satisfy the exact lookup for p
ExactRows(p) == {r \in Range(Rows(store)) : ExactWhere(r, p)}

\* C1 (first success wins): the result of every row, when the row is done,
\* carries the type and the candidate of the earliest stage, in the order
\* exact, fuzzy, phonetic, embedding, api, whose matcher finds a candidate for
\* the row; when some candidate row satisfies the exact lookup the result is
\* "exact" with the id of such a row, whatever the later stages would return.
FirstSuccessWins ==
    RowDone =>
        LET p == QueryOf(idx)
            res == LastResult
            ex == exact_match(store, p)
            fz == fuzzy_match(store, p)
            ph == phonetic_match(store, p)
            early == Found(ex.hhid) \/ Found(fz.hhid) \/ Found(ph.hhid)
        IN  /\ ExactRows(p) # {} =>
                  /\ res.match_type = "exact"
                  /\ res.address_id \in {r.hhid : r \in ExactRows(p)}
            /\ Found(ex.hhid) =>
                  res.match_type = "exact" /\ res.address_id = ex.hhid
            /\ ~Found(ex.hhid) /\ Found(fz.hhid) =>
                  res.match_type = "fuzzy" /\ res.address_id = fz.hhid
            /\ ~Found(ex.hhid) /\ ~Found(fz.hhid) /\ Found(ph.hhid) =>
                  res.match_type = "phonetic" /\ res.address_id = ph.hhid
            /\ ~early =>
                  LET em == embedding_match(store, p, cos, EmbThreshold)
                  IN  /\ Found(em.hhid) =>
                            res.match_type = "embedding" /\ res.address_id = em.hhid
                      /\ ~Found(em.hhid) =>
                            /\ Found(apiRet.hhid) =>
                                  /\ res.match_type = "api"
                                  /\ res.address_id = apiRet.hhid
                            /\ ~Found(apiRet.hhid) =>
                                  res.match_type = "unmatched"

\* a row typed "exact" for which the fuzzy and the phonetic matcher find a
\* candidate as well
FirstSuccessWinsWitness ==
    \E i \in DOMAIN results :
        /\ results[i].match_type = "exact"
        /\ ExactRows(QueryOf(i)) # {}
        /\ Found(fuzzy_match(store, QueryOf(i)).hhid)
        /\ Found(phonetic_match(store, QueryOf(i)).hhid)

\* C2 (one match type; unmatched iff no candidate): every result has one of
\* the six match types, and its type is "unmatched" exactly when its
\* address_id is absent.
UnmatchedIffNoCandidate ==
    \A i \in DOMAIN results :
        /\ results[i].match_type \in MatchTypes
        /\ results[i].match_type = "unmatched" <=> results[i].address_id = NoneId

\* a row that no stage could link: the validator answered, and its
\* components matched no candidate
UnmatchedIffNoCandidateWitness ==
    \E i \in DOMAIN results :
        /\ results[i].match_type = "unmatched"
        /\ results[i].address_id = NoneId
        /\ results[i].reason = "api returned but no match"

\* C3 (confidence on the 0-1 scale): the confidence of every result lies in
\* 0.0 .. 1.0 (0 .. 100 hundredths), and is exactly 1.0 for "exact".
ConfidenceInUnitInterval ==
    \A i \in DOMAIN results :
        /\ results[i].confidence \in 0..100
        /\ results[i].match_type = "exact" => results[i].confidence = 100

\* the reasons that api_match returns
ApiReasons ==
    {"no api key", "no original_address", "api request error", "no api result",
     "api match", "api returned but no match"}

\* C4 (reason always populated): every result has a non-empty reason, and the
\* reason of an "unmatched" result is the one that the API matcher, the last
\* stage attempted, returned for that row.
ReasonFromLastStage ==
    /\ \A i \in DOMAIN results :
          /\ results[i].reason # ""
          /\ results[i].match_type = "unmatched" =>
                results[i].reason \in ApiReasons \ {"api match"}
    /\ RowDone /\ LastResult.match_type = "unmatched" =>
          /\ ApiCalled
          /\ ~apiRet.raised
          /\ LastResult.reason = apiRet.reason

\* an unmatched row whose earlier stages all left their own reasons behind,
\* the last of them "low embedding score" after a candidate was encoded
ReasonFromLastStageWitness ==
    /\ RowDone
    /\ LastResult.match_type = "unmatched"
    /\ Len(calls) = 5
    /\ Encoded(store, Cur) # {}
    /\ LastResult.reason = "no api result"

\* C5 (unit gating): for every "fuzzy" or "phonetic" result the unit number
\* of the parsed row equals the unit number of the matched candidate (both
\* may be empty).
UnitGating ==
    \A i \in DOMAIN results :
        results[i].match_type \in {"fuzzy", "phonetic"} =>
            QueryOf(i).unit = Row(results[i].address_id).aptnbr

\* a unit field (type or number) empty on one side and not on the other
OneSidedUnit(type, number, r) ==
    \/ (type = EMPTY) # (r.apttype = EMPTY)
    \/ (number = EMPTY) # (r.aptnbr = EMPTY)

\* the unit fields empty on both sides
NoUnits(type, number, r) ==
    type = EMPTY /\ number = EMPTY /\ r.apttype = EMPTY /\ r.aptnbr = EMPTY

\* the fields other than the unit that the exact lookup compares
OtherFieldsEqual(r, p) ==
    /\ r.house = p.street_number
    /\ r.predir = p.predir
    /\ r.street = p.street_name
    /\ r.strtype = p.street_type
    /\ r.postdir = p.postdir

\* the fields other than the unit that the API lookup compares
OtherApiFieldsEqual(r, a) ==
    /\ r.house = a.house
    /\ r.street = a.street
    /\ r.zip = a.zip5
    /\ r.predir = a.predir
    /\ r.postdir = a.postdir
    /\ r.strtype = a.strtype

\* the API stage got components from the validator and ran its lookup
ApiLookedUp == ApiCalled /\ apiRet.params # NoParams

\* C6 (unit null-equivalence in the exact and the API lookup): when a
\* candidate row equals the query in the other compared fields and the unit
\* type and number are empty on both sides the lookup returns a candidate, and
\* a lookup never returns a row one of whose unit fields is empty on one side
\* and not on the other.
UnitNullEquivalence ==
    /\ Len(calls) >= 1 =>
          LET p == Cur
              got == calls[1].hhid
          IN  /\ (\E r \in Range(Rows(store)) :
                     OtherFieldsEqual(r, p) /\ NoUnits(p.apt_type, p.unit, r))
                 => Found(got)
              /\ Found(got) => ~OneSidedUnit(p.apt_type, p.unit, Row(got))
    /\ ApiLookedUp =>
          LET a == apiRet.params
              got == apiRet.hhid
          IN  /\ (\E r \in Range(Rows(store)) :
                     OtherApiFieldsEqual(r, a) /\ NoUnits(a.apt_type, a.unit, r))
                 => Found(got)
              /\ Found(got) => ~OneSidedUnit(a.apt_type, a.unit, Row(got))

\* an API lookup that finds nothing because the row equal in the other
\* fields has a unit where the validator's components have none
UnitNullEquivalenceWitness ==
    /\ ApiLookedUp
    /\ ~Found(apiRet.hhid)
    /\ \E r \in Range(Rows(store)) :
          /\ OtherApiFieldsEqual(r, apiRet.params)
          /\ OneSidedUnit(apiRet.params.apt_type, apiRet.params.unit, r)

\* C7 (no validator outcome aborts a match): whatever the validator does,
\* api_match returns its triple without raising, and a row without candidate
\* ends "unmatched" with one of the API matcher's reasons.
ApiNeverAborts ==
    /\ ~apiRet.raised
    /\ pc # "crashed"
    /\ RowDone /\ ApiCalled /\ ~Found(apiRet.hhid) =>
          /\ LastResult.match_type = "unmatched"
          /\ LastResult.reason \in ApiReasons

\* the first four stages each returned no candidate for the current row
FourStagesFailed ==
    /\ Len(calls) >= 4
    /\ \A k \in 1..4 : ~Found(calls[k].hhid)

\* C8 (validator not configured): without an API key no request is ever sent
\* to the validator, and a row for which the first four stages find no
\* candidate ends "unmatched" with the reason "no api key".
NoApiKeyUnmatched ==
    apiKey = "" =>
        /\ requests = 0
        /\ ~apiRet.sent
        /\ pc # "crashed"
        /\ RowDone /\ FourStagesFailed =>
              /\ ApiCalled
              /\ LastResult.match_type = "unmatched"
              /\ LastResult.address_id = NoneId
              /\ LastResult.reason = "no api key"

\* a row that went through all five stages with no key set
NoApiKeyUnmatchedWitness ==
    /\ apiKey = ""
    /\ RowDone
    /\ FourStagesFailed
    /\ ApiCalled
    /\ LastResult.reason = "no api key"

\* the original address, city, state and zip of p hold no text
BlankQuery(p) ==
    /\ Strip(p.original_address) = EMPTY
    /\ p.city = EMPTY
    /\ p.state = EMPTY
    /\ p.zip_code = EMPTY

\* C9 (empty query): when the API stage runs with a key set for a row whose
\* original address, city, state and zip are all empty, it sends no request
\* and returns the reason "no original address".
EmptyQueryNotSent ==
    ApiCalled /\ apiKey # "" /\ BlankQuery(Cur) =>
        /\ ~apiRet.sent
        /\ ~apiRet.raised
        /\ apiRet.reason = "no original address"

\* C10 (stage ordering): for every row the stages invoked are a prefix of
\* exact, fuzzy, phonetic, embedding, api, each at most once; every stage
\* before the last invoked returned no candidate; once a stage has returned a
\* candidate the row is done; and the validator gets a request, one at most,
\* only after the first four stages have failed.
StageOrdering ==
    /\ Len(calls) <= Len(Stages)
    /\ \A k \in DOMAIN calls : calls[k].stage = Stages[k]
    /\ \A k \in 1..(Len(calls) - 1) : ~Found(calls[k].hhid)
    /\ (calls # <<>> /\ Found(calls[Len(calls)].hhid)) => pc \in {"loop", "finished"}
    /\ pc \in {"exact", "fuzzy", "phonetic", "embedding", "api"} =>
          /\ Len(calls) < Len(Stages)
          /\ pc = Stages[Len(calls) + 1]
    /\ requests <= 1
    /\ requests > 0 => ApiCalled /\ FourStagesFailed

\* a row whose five stages ran, the last with a request to the validator
StageOrderingWitness ==
    /\ RowDone
    /\ Len(calls) = 5
    /\ requests = 1
    /\ LastResult.match_type = "api"

\* the scales of the stages' scores: 0-100 in hundredths for the two token
\* ratios, -1..1 in ten-thousandths for the cosine
RatioScale == 0..10000

CosineScale == (0 - 10000)..10000

\* C11 (threshold soundness): a result is typed "fuzzy" or "phonetic" only
\* if the similarity of its query to the linked candidate is at least 70 on
\* the 0-100 scale, and "embedding" only if the cosine similarity of the two
\* is at least 0.75; the result carries that score, and every score a stage
\* computes lies within its scale.
ThresholdSoundness ==
    /\ \A i \in DOMAIN results :
          LET res == results[i]
              p == QueryOf(i)
              r == Row(res.address_id)
          IN  /\ res.match_type = "fuzzy" =>
                    /\ SortRatioOf[<<ParsedFull(p), CanonFull(r)>>] >= FuzzyThreshold
                    /\ res.confidence = SortRatioOf[<<ParsedFull(p), CanonFull(r)>>]
              /\ res.match_type = "phonetic" =>
                    /\ SetRatioOf[<<ParsedFull(p), Upper(OrEmpty(r.address))>>]
                           >= PhoneticThreshold
                    /\ res.confidence
                           = SetRatioOf[<<ParsedFull(p), Upper(OrEmpty(r.address))>>]
              /\ res.match_type = "embedding" =>
                    /\ <<ParsedFull(p), CandAddr(r)>> \in DOMAIN cos
                    /\ cos[<<ParsedFull(p), CandAddr(r)>>] >= EmbThreshold
                    /\ res.confidence = cos[<<ParsedFull(p), CandAddr(r)>>]
    /\ \A t \in DOMAIN SortRatioOf : SortRatioOf[t] \in RatioScale
    /\ \A t \in DOMAIN SetRatioOf : SetRatioOf[t] \in RatioScale
    /\ \A t \in DOMAIN cos : cos[t] \in CosineScale
    /\ idx > 0 /\ pc # "loop" =>
          /\ fuzzy_match(store, Cur).score \in RatioScale
          /\ phonetic_match(store, Cur).score \in RatioScale

\* a fuzzy result whose score is exactly the threshold
ThresholdSoundnessWitness ==
    /\ RowDone
    /\ LastResult.match_type = "fuzzy"
    /\ LastResult.confidence = FuzzyThreshold

ApiLookupFieldRule ==
    ApiLookedUp /\ Found(apiRet.hhid) =>
        LET r == Row(apiRet.hhid)
            a == apiRet.params
        IN  /\ r.predir = a.predir
            /\ r.postdir = a.postdir
            /\ r.strtype = a.strtype

\* C14 (blocking-key skip): a stage called for a row whose street number is
\* empty returns no candidate and does not query the store; and the API
\* stage, when the validator's normalized house number is empty, runs no
\* lookup and links no candidate.
BlockingKeySkip ==
    /\ \A k \in DOMAIN calls :
          calls[k].stage # "api" /\ Cur.street_number = EMPTY =>
              /\ ~Found(calls[k].hhid)
              /\ ~StoreQueried(calls[k].stage, Cur)
    /\ ApiCalled /\ apiRet.params.house = EMPTY =>
          /\ ~Found(apiRet.hhid)
          /\ ~ApiLookedUp

\* the same-house candidates of the row the loop is at, in table order
SameHouse == SelectSeq(Rows(store), LAMBDA r : r.house = Cur.street_number)

FuzzyScore(r) == SortRatioOf[<<ParsedFull(Cur), CanonFull(r)>>]

\* candidate k of the same-house candidates is the one the loop ends with:
\* the first to reach the highest score
IsBest(k) ==
    /\ FuzzyScore(SameHouse[k]) > 0
    /\ \A j \in 1..(k - 1) : FuzzyScore(SameHouse[j]) < FuzzyScore(SameHouse[k])
    /\ \A j \in (k + 1)..Len(SameHouse) :
          FuzzyScore(SameHouse[j]) <= FuzzyScore(SameHouse[k])

\* the best candidate passes the gate
Accepted(k) ==
    /\ FuzzyScore(SameHouse[k]) >= FuzzyThreshold
    /\ SameHouse[k].aptnbr = Cur.unit

\* C15 (fuzzy gate on the single best candidate): when the fuzzy stage has
\* run for a row with a street number, it returns the single best same-house
\* candidate (the first with the highest score) if that one reaches the
\* threshold and has the parsed unit number, with its score; otherwise it
\* returns none, whatever the other candidates are, and the phonetic stage
\* runs next.
FuzzySingleBestGate ==
    Len(calls) >= 2 /\ Cur.street_number # EMPTY =>
        LET h == calls[2].hhid
        IN  /\ Found(h) <=> \E k \in DOMAIN SameHouse : IsBest(k) /\ Accepted(k)
            /\ Found(h) => \E k \in DOMAIN SameHouse :
                              /\ IsBest(k) /\ Accepted(k)
                              /\ SameHouse[k].hhid = h
            /\ Found(h) /\ RowDone =>
                  /\ LastResult.match_type = "fuzzy"
                  /\ LastResult.address_id = h
                  /\ \E k \in DOMAIN SameHouse :
                        IsBest(k) /\ LastResult.confidence = FuzzyScore(SameHouse[k])
            /\ ~Found(h) /\ Len(calls) = 2 => pc = "phonetic"
            /\ ~Found(h) /\ Len(calls) > 2 => calls[3].stage = "phonetic"

\* the best candidate has another unit than the query, a later candidate
\* with the query's unit reaches the threshold too, and the fuzzy stage
\* returned none: the phonetic stage is next
FuzzySingleBestGateWitness ==
    /\ Len(calls) = 2
    /\ pc = "phonetic"
    /\ Cur.unit = W4B
    /\ ~Found(calls[2].hhid)
    /\ \E k \in DOMAIN SameHouse :
          /\ IsBest(k)
          /\ FuzzyScore(SameHouse[k]) >= FuzzyThreshold
          /\ SameHouse[k].aptnbr = W4A
    /\ \E j \in DOMAIN SameHouse :
          /\ FuzzyScore(SameHouse[j]) >= FuzzyThreshold
          /\ SameHouse[j].aptnbr = Cur.unit
====
